---- MODULE Spec2Model ----
(***************************************************************************)
(* Model of the "Process Invoice" handler of app.py: ingestion of the      *)
(* extraction response, the per-row resolution loop against product_db,    *)
(* the running total, and the auto-save of the sale.                       *)
(*                                                                         *)
(* Strings are sequences of one-character strings, so that lower(),        *)
(* strip(), title() and the `in` substring test are computed, not assumed. *)
(***************************************************************************)
EXTENDS Integers, Sequences, FiniteSets, TLC

\* ---------------------------------------------------------------- bounds
MaxItems == 2
MaxPrice == 1

\* ------------------------------------------------------- string helpers
LowerOf(c) == IF c = "A" THEN "a" ELSE IF c = "B" THEN "b" ELSE c

UpperOf(c) == IF c = "a" THEN "A" ELSE IF c = "b" THEN "B" ELSE c

IsCased(c) == c \in {"a", "b", "A", "B"}

IsSpace(c) == c = " "

\* str.lower()
lower(s) == [i \in 1..Len(s) |-> LowerOf(s[i])]

RECURSIVE lstrip(_)
lstrip(s) == IF s # <<>> /\ IsSpace(Head(s)) THEN lstrip(Tail(s)) ELSE s

RECURSIVE rstrip(_)
rstrip(s) ==
    IF s # <<>> /\ IsSpace(s[Len(s)]) THEN rstrip(SubSeq(s, 1, Len(s) - 1)) ELSE s

\* str.strip()
strip(s) == rstrip(lstrip(s))

\* str.title(): a cased character is upper-cased when it follows an uncased
\* one (or starts the string) and lower-cased otherwise.
title(s) ==
    [i \in 1..Len(s) |->
        IF i = 1 \/ ~IsCased(s[i - 1]) THEN UpperOf(s[i]) ELSE LowerOf(s[i])]

\* a in b  (Python substring test)
IsIn(a, b) ==
    \E k \in 0..(Len(b) - Len(a)) : SubSeq(b, k + 1, k + Len(a)) = a

\* ------------------------------------------------------------- dict rows
Has(row, k) == k \in DOMAIN row

\* row.get(k, default)
RowGet(row, k, default) == IF Has(row, k) THEN row[k] ELSE default

\* row[k] = v
RowSet(row, k, v) == [f \in (DOMAIN row) \cup {k} |-> IF f = k THEN v ELSE row[f]]

\* ----------------------------------------------------------- product_db
\* product_db is a dict; its insertion order is the order of the sequence.
DbIndex(db, name) ==
    IF \E i \in 1..Len(db) : db[i].name = name
    THEN CHOOSE i \in 1..Len(db) : db[i].name = name
    ELSE 0

\* product_db.get(ai_name, 0)
DbGet(db, name, default) ==
    IF DbIndex(db, name) = 0 THEN default ELSE db[DbIndex(db, name)].price

\* The scan without its break: the last matching entry wins.
RECURSIVE FuzzyScanLast(_, _, _)
FuzzyScanLast(db, ai_name, i) ==
    IF i > Len(db) THEN 0
    ELSE IF FuzzyScanLast(db, ai_name, i + 1) # 0
         THEN FuzzyScanLast(db, ai_name, i + 1)
    ELSE IF IsIn(ai_name, db[i].name) \/ IsIn(db[i].name, ai_name) THEN i
    ELSE 0

\* for db_name, db_price in product_db.items(): if ... : break
RECURSIVE FuzzyScan(_, _, _)
FuzzyScan(db, ai_name, i) ==
    IF i > Len(db) THEN 0
    ELSE IF IsIn(ai_name, db[i].name) \/ IsIn(db[i].name, ai_name) THEN i
    ELSE FuzzyScan(db, ai_name, i + 1)

\* ------------------------------------------------------ response.text
\* The response text is a sequence of tokens: "lb" and "rb" are the
\* brackets, "obj" is one JSON object literal (with its separator) and
\* "junk" is any other text.
Lb == [t |-> "lb"]

Rb == [t |-> "rb"]

Junk == [t |-> "junk"]

Obj(row) == [t |-> "obj", row |-> row]

FirstLb(text) ==
    IF \E i \in 1..Len(text) : text[i].t = "lb"
    THEN CHOOSE i \in 1..Len(text) :
            text[i].t = "lb" /\ \A j \in 1..(i - 1) : text[j].t # "lb"
    ELSE 0

LastRb(text) ==
    IF \E i \in 1..Len(text) : text[i].t = "rb"
    THEN CHOOSE i \in 1..Len(text) :
            text[i].t = "rb" /\ \A j \in (i + 1)..Len(text) : text[j].t # "rb"
    ELSE 0

\* re.search(r'\[.*\]', text, re.DOTALL): the leftmost "[" and, the star
\* being greedy, the last "]" behind it.
HasMatch(text) == FirstLb(text) # 0 /\ LastRb(text) > FirstLb(text)

\* match.group(0)
MatchGroup(text) == SubSeq(text, FirstLb(text), LastRb(text))

SpanInner(span) == SubSeq(span, 2, Len(span) - 1)

\* json.loads(span) returns a list when the span is an array of objects
\* and raises JSONDecodeError otherwise.
JsonParses(span) ==
    LET inner == SpanInner(span)
    IN  \A i \in 1..Len(inner) : inner[i].t = "obj"

JsonLoads(span) ==
    LET inner == SpanInner(span)
    IN  [i \in 1..Len(inner) |-> inner[i].row]

\* ---------------------------------------------------------------- inputs
\* Names the extraction service may return for an item.
RawNames == { <<>>, <<"a">>, <<"a", "B", " ">> }

\* Quantities the extraction service may return.
RawQtys == { 0, 2 }

\* A unit price written on the list.
StatedPrices == { 3 }

EmptyRow == [k \in {} |-> 0]

\* Rows the prompt asks for: {"qty": .., "item": ..}, either key possibly
\* missing.
Rows ==
    { [qty |-> q, item |-> n] : q \in RawQtys, n \in RawNames }
        \cup { [qty |-> q] : q \in RawQtys }
        \cup { [item |-> n] : n \in RawNames }
        \cup { EmptyRow }

\* Rows that also carry a "unit_price" key.
StatedRows ==
    { RowSet(r, "unit_price", p) : r \in Rows, p \in StatedPrices }

RowSeqs(R, n) == UNION { [1..k -> R] : k \in 0..n }

ArrayText(rows) ==
    <<Lb>> \o [i \in 1..Len(rows) |-> Obj(rows[i])] \o <<Rb>>

\* Responses without any [...] span.
NoSpanTexts == { <<>>, <<Junk>>, <<Rb, Junk, Lb>>, <<Lb, Junk>> }

\* Responses whose [...] span is not a JSON array.
BadSpanTexts ==
    { <<Lb, Junk, Rb>>, <<Lb, Rb, Junk, Lb, Rb>>, <<Junk, Lb, Obj(EmptyRow), Junk, Rb>> }

Texts(R) ==
    { ArrayText(rs) : rs \in RowSeqs(R, MaxItems) }
        \cup { <<Junk>> \o ArrayText(rs) \o <<Junk>> : rs \in RowSeqs(R, 1) }
        \cup NoSpanTexts \cup BadSpanTexts

\* Catalog keys after .str.lower().str.strip() of the Item Description
\* column; sale prices are non-negative.
DbNames == { <<"b">>, <<"a", "b">> }

DbEntries == [name : DbNames, price : 0..MaxPrice]

\* dict(zip(...)): keys are unique, order is insertion order.
Catalogs ==
    { db \in RowSeqs(DbEntries, Cardinality(DbNames)) :
        \A i, j \in 1..Len(db) : db[i].name = db[j].name => i = j }

\* ----------------------------------------------------------------- state
VARIABLES
    product_db,          \* the catalog built in the sidebar
    response_text,       \* response.text of the extraction call
    raw_data,            \* the parsed candidate rows (mutated by the loop)
    pc,                  \* "ingest", "loop", "done" or "error"
    idx,                 \* position of the for loop in raw_data
    final_total,
    clean_list,
    item_names_summary,
    unit_prices,         \* the local `price` of each emitted line
    sales_history,       \* rows appended to sales_history.csv
    pass,                \* number of the resolution pass over raw_data
    first_pass           \* the invoice of the first pass, once a second runs

vars ==
    << product_db, response_text, raw_data, pc, idx, final_total, clean_list,
       item_names_summary, unit_prices, sales_history, pass, first_pass >>

NoInvoice == [lines |-> <<>>, total |-> -1, made |-> FALSE]

InitWith(R) ==
    /\ product_db \in Catalogs
    /\ response_text \in Texts(R)
    /\ raw_data = <<>>
    /\ pc = "ingest"
    /\ idx = 1
    /\ final_total = 0
    /\ clean_list = <<>>
    /\ item_names_summary = <<>>
    /\ unit_prices = <<>>
    /\ sales_history = <<>>
    /\ pass = 1
    /\ first_pass = NoInvoice

Init == InitWith(Rows)

InitStated == InitWith(StatedRows)

\* ---------------------------------------------------------------- actions
\* Lines 135-140: locate the span, parse it, reset the accumulators.  A
\* JSONDecodeError leaves the try block for the handler at line 179.
Ingest ==
    /\ pc = "ingest"
    /\ IF ~HasMatch(response_text)
       THEN raw_data' = <<>> /\ pc' = "loop"
       ELSE LET span == MatchGroup(response_text)
            IN  IF JsonParses(span)
                THEN raw_data' = JsonLoads(span) /\ pc' = "loop"
                ELSE raw_data' = raw_data /\ pc' = "error"
    /\ idx' = 1
    /\ final_total' = 0
    /\ clean_list' = <<>>
    /\ item_names_summary' = <<>>
    /\ unit_prices' = <<>>
    /\ UNCHANGED << product_db, response_text, sales_history, pass, first_pass >>

\* Line 143.
AiName(row) == strip(lower(RowGet(row, "item", <<>>)))

\* Line 144.
Qty(row) == RowGet(row, "qty", 1)

\* The scan run whatever the exact lookup returned.
FuzzyHitAlways(db, ai_name, price) == FuzzyScan(db, ai_name, 1)

\* Lines 147-153: the catalog position the scan stops at, 0 when the scan
\* is skipped (price # 0) or runs to its end.
FuzzyHit(db, ai_name, price) ==
    IF price = 0 THEN FuzzyScan(db, ai_name, 1) ELSE 0

\* Lines 143-155 for one row: the locals qty, price and line_total, and the
\* row as line 152 leaves it.
Iteration(db, row) ==
    LET ai_name == AiName(row)
        qty == Qty(row)
        exact == DbGet(db, ai_name, 0)
        hit == FuzzyHit(db, ai_name, exact)
        price == IF hit # 0 THEN db[hit].price ELSE exact
    IN  [ qty |-> qty,
          price |-> price,
          row |-> IF hit # 0 THEN RowSet(row, "item", title(db[hit].name)) ELSE row,
          line_total |-> qty * price ]

\* Line 158: row.get('item') is None when the key is missing, and
\* None.title() raises AttributeError.
Raises(it) == ~Has(it.row, "item")

\* The dict appended at line 158.
CleanLine(it) ==
    [qty |-> it.qty, item |-> title(it.row.item), line_total |-> it.line_total]

\* The iteration with `final_total = line_total` in place of `+=`.
ResolveRowOverwritesTotal ==
    /\ pc = "loop"
    /\ idx <= Len(raw_data)
    /\ LET it == Iteration(product_db, raw_data[idx])
       IN  /\ ~Raises(it)
           /\ raw_data' = [raw_data EXCEPT ![idx] = it.row]
           /\ final_total' = it.line_total
           /\ clean_list' = Append(clean_list, CleanLine(it))
           /\ item_names_summary' = Append(item_names_summary, it.row.item)
           /\ unit_prices' = Append(unit_prices, it.price)
    /\ idx' = idx + 1
    /\ UNCHANGED << product_db, response_text, pc, sales_history, pass, first_pass >>

\* The iteration that skips a row whose price resolved to zero.
ResolveRowDropsUnpriced ==
    /\ pc = "loop"
    /\ idx <= Len(raw_data)
    /\ LET it == Iteration(product_db, raw_data[idx])
       IN  /\ ~Raises(it)
           /\ raw_data' = [raw_data EXCEPT ![idx] = it.row]
           /\ final_total' = final_total + it.line_total
           /\ IF it.price = 0
              THEN UNCHANGED << clean_list, item_names_summary, unit_prices >>
              ELSE /\ clean_list' = Append(clean_list, CleanLine(it))
                   /\ item_names_summary' = Append(item_names_summary, it.row.item)
                   /\ unit_prices' = Append(unit_prices, it.price)
    /\ idx' = idx + 1
    /\ UNCHANGED << product_db, response_text, pc, sales_history, pass, first_pass >>

\* One iteration of `for row in raw_data` that reaches line 159.
ResolveRow ==
    /\ pc = "loop"
    /\ idx <= Len(raw_data)
    /\ LET it == Iteration(product_db, raw_data[idx])
       IN  /\ ~Raises(it)
           /\ raw_data' = [raw_data EXCEPT ![idx] = it.row]
           /\ final_total' = final_total + it.line_total
           /\ clean_list' = Append(clean_list, CleanLine(it))
           /\ item_names_summary' = Append(item_names_summary, it.row.item)
           /\ unit_prices' = Append(unit_prices, it.price)
    /\ idx' = idx + 1
    /\ UNCHANGED << product_db, response_text, pc, sales_history, pass, first_pass >>

\* One iteration that raises at line 158, after line 156 has run; the
\* handler at line 179 reports the error and the pass is over.
ResolveRowRaises ==
    /\ pc = "loop"
    /\ idx <= Len(raw_data)
    /\ LET it == Iteration(product_db, raw_data[idx])
       IN  /\ Raises(it)
           /\ raw_data' = [raw_data EXCEPT ![idx] = it.row]
           /\ final_total' = final_total + it.line_total
    /\ pc' = "error"
    /\ UNCHANGED << product_db, response_text, idx, clean_list, item_names_summary,
                    unit_prices, sales_history, pass, first_pass >>

\* ", ".join(item_names_summary)
RECURSIVE Join(_)
Join(names) ==
    IF names = <<>> THEN <<>>
    ELSE IF Len(names) = 1 THEN names[1]
    ELSE names[1] \o <<",", " ">> \o Join(Tail(names))

\* Lines 161-177: the loop is over; the invoice is displayed and save_sale
\* appends one row to the history.
SaveSale ==
    /\ pc = "loop"
    /\ idx > Len(raw_data)
    /\ sales_history' =
            Append(sales_history,
                   [Items |-> Join(item_names_summary), Total |-> final_total])
    /\ pc' = "done"
    /\ UNCHANGED << product_db, response_text, raw_data, idx, final_total, clean_list,
                    item_names_summary, unit_prices, pass, first_pass >>

\* A second resolution pass over the very list of row objects the first
\* pass was given (lines 138-159 run again on raw_data as the loop left it).
Rerun ==
    /\ pc = "done"
    /\ pass = 1
    /\ first_pass' = [lines |-> clean_list, total |-> final_total, made |-> TRUE]
    /\ pass' = 2
    /\ pc' = "loop"
    /\ idx' = 1
    /\ final_total' = 0
    /\ clean_list' = <<>>
    /\ item_names_summary' = <<>>
    /\ unit_prices' = <<>>
    /\ UNCHANGED << product_db, response_text, raw_data, sales_history >>

Next == Ingest \/ ResolveRow \/ ResolveRowRaises \/ SaveSale

NextRerun == Next \/ Rerun

Spec == Init /\ [][Next]_vars

SpecStated == InitStated /\ [][Next]_vars

SpecRerun == Init /\ [][NextRerun]_vars

\* ================================================================ claims
\* The rows as the extraction service returned them, before the loop
\* touched any of them.
OrigRows ==
    IF ~HasMatch(response_text) THEN <<>>
    ELSE LET span == MatchGroup(response_text)
         IN  IF JsonParses(span) THEN JsonLoads(span) ELSE <<>>

\* The normalized name of a returned row: trimmed and lowercased, empty when
\* the name is absent.
NormName(row) == strip(lower(IF Has(row, "item") THEN row.item ELSE <<>>))

\* Catalog positions whose name contains the name or is contained in it.
SubstrMatches(name) ==
    { k \in 1..Len(product_db) :
        IsIn(name, product_db[k].name) \/ IsIn(product_db[k].name, name) }

FirstSubstrMatch(name) ==
    CHOOSE k \in SubstrMatches(name) : \A m \in SubstrMatches(name) : k <= m

\* The name is a catalog key with a nonzero price.
ExactNonZero(name) ==
    \E k \in 1..Len(product_db) :
        product_db[k].name = name /\ product_db[k].price # 0

ExactEntry(name) == CHOOSE k \in 1..Len(product_db) : product_db[k].name = name

\* The catalog position a name resolves to, 0 when it resolves to none.
MatchedEntry(name) ==
    IF ExactNonZero(name) THEN ExactEntry(name)
    ELSE IF SubstrMatches(name) # {} THEN FirstSubstrMatch(name)
    ELSE 0

ExpectedPrice(name) ==
    IF MatchedEntry(name) = 0 THEN 0 ELSE product_db[MatchedEntry(name)].price

RECURSIVE SumLineTotals(_)
SumLineTotals(lines) ==
    IF lines = <<>> THEN 0
    ELSE lines[1].line_total + SumLineTotals(Tail(lines))

\* Lines emitted so far by the first pass.
Emitted == IF pass = 1 /\ pc \in {"loop", "done"} THEN 1..Len(clean_list) ELSE {}

\* C1: a resolution pass over any rows and any catalog completes and
\* yields an invoice; no row makes the handler give up on the batch (the
\* only error left is a response that does not parse).
C1_PassAlwaysCompletes ==
    pc = "error" =>
        HasMatch(response_text) /\ ~JsonParses(MatchGroup(response_text))

\* C2: during the pass and in the finished invoice the grand total is the
\* sum of the line totals emitted so far, every line total is quantity
\* times resolved unit price, and the empty input gives no lines and 0.
C2_TotalIsSumOfLines ==
    pc \in {"loop", "done"} =>
        /\ final_total = SumLineTotals(clean_list)
        /\ Len(unit_prices) = Len(clean_list)
        /\ \A i \in 1..Len(clean_list) :
              clean_list[i].line_total = clean_list[i].qty * unit_prices[i]
        /\ (pc = "done" /\ OrigRows = <<>>) => (clean_list = <<>> /\ final_total = 0)

\* A finished invoice of two lines, 2 * 1 and 1 * 1, totalling 3.
C2_Witness ==
    /\ pc = "done"
    /\ Len(clean_list) = 2
    /\ clean_list[1].line_total = 2
    /\ clean_list[2].line_total = 1
    /\ final_total = 3

\* C3: a row that matched no catalog entry and carries a stated unit price
\* is resolved at that stated price, line total quantity times it.
C3_StatedPriceFallback ==
    \A i \in Emitted :
        (MatchedEntry(NormName(OrigRows[i])) = 0 /\ Has(OrigRows[i], "unit_price")) =>
            /\ unit_prices[i] = OrigRows[i].unit_price
            /\ clean_list[i].line_total = clean_list[i].qty * OrigRows[i].unit_price

\* C4: a row whose normalized name is a catalog key with a nonzero price
\* gets exactly that entry's price, and the substring scan leaves no trace
\* (the row's name is not rewritten), wherever other entries sit.
C4_ExactMatchPrecedence ==
    LET orig == OrigRows IN
    \A i \in Emitted :
        LET name == NormName(orig[i]) IN
        ExactNonZero(name) =>
            LET exact == product_db[ExactEntry(name)].price IN
            /\ unit_prices[i] = exact
            /\ clean_list[i].line_total = clean_list[i].qty * exact
            /\ raw_data[i] = orig[i]

\* An exact key with a nonzero price was resolved although an earlier entry
\* with another price matches the name by substring.
C4_Witness ==
    \E i \in Emitted :
        LET name == NormName(OrigRows[i]) IN
        /\ ExactNonZero(name)
        /\ FirstSubstrMatch(name) < ExactEntry(name)
        /\ product_db[FirstSubstrMatch(name)].price # unit_prices[i]

\* C5: a row whose normalized name is no catalog key, or a key priced zero,
\* takes price and canonical name of the first entry in catalog order that
\* contains the name or is contained in it, never a later one; with no such
\* entry its price is zero.
C5_SubstringFallback ==
    LET orig == OrigRows IN
    \A i \in Emitted :
        LET name == NormName(orig[i]) IN
        ~ExactNonZero(name) =>
            IF SubstrMatches(name) # {}
            THEN LET first == product_db[FirstSubstrMatch(name)] IN
                 /\ unit_prices[i] = first.price
                 /\ raw_data[i].item = title(first.name)
                 /\ clean_list[i].item = title(first.name)
            ELSE unit_prices[i] = 0

\* The fallback chose among two matching entries with different prices.
C5_Witness ==
    \E i \in Emitted :
        LET name == NormName(OrigRows[i]) IN
        /\ ~ExactNonZero(name)
        /\ \E m \in SubstrMatches(name) :
              /\ m > FirstSubstrMatch(name)
              /\ product_db[m].price # unit_prices[i]

\* C6: a second pass over the very rows the first pass was given yields
\* the same invoice as the first.
C6_SecondPassSameInvoice ==
    (pass = 2 /\ pc = "done") =>
        (clean_list = first_pass.lines /\ final_total = first_pass.total)

Unknown == <<"U", "n", "k", "n", "o", "w", "n">>

\* C7: the display name of a line is the matched entry's canonical name
\* title-cased when an entry matched, else the raw name title-cased, and
\* "Unknown" when the raw name is empty or absent.
C7_DisplayNamePolicy ==
    \A i \in Emitted :
        clean_list[i].item =
            IF MatchedEntry(NormName(OrigRows[i])) # 0
            THEN title(product_db[MatchedEntry(NormName(OrigRows[i]))].name)
            ELSE IF ~Has(OrigRows[i], "item") \/ OrigRows[i].item = <<>>
                 THEN Unknown
                 ELSE title(OrigRows[i].item)

\* C8: the invoice has one line per returned row, in input order: line i
\* carries row i's quantity and row i's resolution, and a row resolving to
\* price 0 is emitted with unit price 0 and line total 0.
C8_OneLinePerRowInOrder ==
    LET orig == OrigRows IN
    /\ pc = "loop" => Len(clean_list) = idx - 1
    /\ pc = "done" => Len(clean_list) = Len(orig)
    /\ \A i \in Emitted :
          /\ i <= Len(orig)
          /\ LET expected == ExpectedPrice(NormName(orig[i]))
                 quantity == RowGet(orig[i], "qty", 1)
             IN  /\ clean_list[i].qty = quantity
                 /\ unit_prices[i] = expected
                 /\ clean_list[i].line_total = quantity * expected

\* A finished invoice of two lines, the first of an unmatched row (price
\* 0, total 0), the second of a matched one.
C8_Witness ==
    /\ pc = "done"
    /\ Len(clean_list) = 2
    /\ MatchedEntry(NormName(OrigRows[1])) = 0
    /\ clean_list[1].line_total = 0
    /\ unit_prices[2] # 0
    /\ clean_list[2].line_total # 0

\* C9: every resolved quantity is a positive integer; a row whose quantity
\* is missing, zero or negative is resolved with quantity 1.
C9_QuantityPolicy ==
    \A i \in Emitted :
        /\ clean_list[i].qty > 0
        /\ (~Has(OrigRows[i], "qty") \/ OrigRows[i].qty <= 0) =>
              (clean_list[i].qty = 1 /\ clean_list[i].line_total = unit_prices[i])

\* C10: a response without a [...] span, or whose span does not parse,
\* gives the empty candidate list and the pass goes on to the empty
\* invoice with total 0, without an error.
C10_BadResponseIsEmptyList ==
    (pc # "ingest"
        /\ (~HasMatch(response_text) \/ ~JsonParses(MatchGroup(response_text)))) =>
        /\ pc # "error"
        /\ raw_data = <<>>
        /\ pc = "done" => (clean_list = <<>> /\ final_total = 0)

====
